---------------------------- MODULE Spec2Model ----------------------------
(***************************************************************************)
(* Requiva: the storage layer of src/utils.py (backend selection, schema   *)
(* normalisation, load_orders, save_orders, gen_req_id, validate_order)    *)
(* and the Add Order flow of src/app.py.                                   *)
(*                                                                         *)
(* Strings are sequences of one-character strings, so that str.split,      *)
(* str.startswith, str.isdigit, int() and the "04d" format are computed as *)
(* Python computes them.  A cell value is a record [k, s, n]:              *)
(*   k = "none"  Python None          k = "nan"  float('nan')              *)
(*   k = "str"   the string s         k = "num"  the number n              *)
(***************************************************************************)
EXTENDS Integers, Sequences, FiniteSets, TLC

VARIABLES
    FB,             \* utils.FB: the [firebase] secrets block (its shape)
    env,            \* what the firebase_admin calls will do in this process
    initpc,         \* "import" before utils is imported, "ready" after
    db,             \* utils.db
    USE_FIRESTORE,  \* utils.USE_FIRESTORE
    raised,         \* an exception escaped to the caller
    csv,            \* the file at DATA_PATH: [header, lines] of cell texts
    docs,           \* the Firestore collection: document id -> field map
    year,           \* the calendar year datetime.now() reports
    pc,             \* per session: position in the Add Order flow
    df,             \* per session: the DataFrame variable df of tab_new
    base,           \* per session: what load_orders() returned (line 69)
    req_id,         \* per session: the req_id of line 97
    added,          \* the ids reported by st.success (line 119)
    phase,          \* direct calls: "idle", "call", "ret"
    op,             \* direct calls: the function called
    arg,            \* direct calls: its argument
    ret,            \* direct calls: what it returned
    before          \* direct calls: the collection as the call found it

vars == <<FB, env, initpc, db, USE_FIRESTORE, raised, csv, docs, year,
          pc, df, base, req_id, added, phase, op, arg, ret, before>>

backendVars == <<FB, env, initpc, db, USE_FIRESTORE, raised>>
flowVars == <<pc, df, base, req_id, added>>
callVars == <<phase, op, arg, ret, before>>

---------------------------------------------------------------------------
(* Bounds *)

MaxRows == 2        \* rows of a batch handed to a direct call
MaxGenRows == 3     \* REQ# values of a batch handed to gen_req_id
MaxOrders == 2      \* orders the sessions add in one run
FirstYear == 2025   \* the year the run starts in
YearSpan == 1       \* how many times the year may change during a run

(* Program constants *)

PadWidth == 4       \* the 04d of gen_req_id

---------------------------------------------------------------------------
(* Strings *)

AsciiDigits == <<"0", "1", "2", "3", "4", "5", "6", "7", "8", "9">>

AsciiDigitSet == {AsciiDigits[i] : i \in 1..10}

\* Characters such as U+00B2 (superscript two): str.isdigit() is True for
\* them (Numeric_Type=Digit) and int() rejects them (they are not Nd).
SuperDigitSet == {"sup2"}

DigitVal(c) == (CHOOSE i \in 1..10 : AsciiDigits[i] = c) - 1

RECURSIVE IntToStr(_)
IntToStr(n) ==
    IF n < 10 THEN <<AsciiDigits[n + 1]>>
    ELSE IntToStr(n \div 10) \o <<AsciiDigits[(n % 10) + 1]>>

RECURSIVE ZeroPad(_, _)
ZeroPad(s, w) == IF Len(s) >= w THEN s ELSE ZeroPad(<<"0">> \o s, w)

\* f"{n:0Wd}"
FormatPadded(n, w) == ZeroPad(IntToStr(n), w)

\* x.startswith(p)
startswith(x, p) == Len(x) >= Len(p) /\ SubSeq(x, 1, Len(p)) = p

\* x.split("-")[-1]: what follows the last "-", the whole of x without one
RECURSIVE LastField(_)
LastField(x) ==
    IF x = <<>> THEN <<>>
    ELSE IF x[Len(x)] = "-" THEN <<>>
    ELSE LastField(SubSeq(x, 1, Len(x) - 1)) \o <<x[Len(x)]>>

\* s.isdigit()
isdigit(s) ==
    /\ Len(s) > 0
    /\ \A i \in 1..Len(s) : s[i] \in AsciiDigitSet \cup SuperDigitSet

\* int(s) succeeds (s is known to be non-empty here)
IntParses(s) == Len(s) > 0 /\ \A i \in 1..Len(s) : s[i] \in AsciiDigitSet

RECURSIVE IntOf(_)
IntOf(s) ==
    IF s = <<>> THEN 0
    ELSE 10 * IntOf(SubSeq(s, 1, Len(s) - 1)) + DigitVal(s[Len(s)])

\* s.strip() == "" for the strings of the model (blanks are " ")
IsBlank(s) == \A i \in 1..Len(s) : s[i] = " "

---------------------------------------------------------------------------
(* Cell values *)

None == [k |-> "none", s |-> <<>>, n |-> 0]
NaN == [k |-> "nan", s |-> <<>>, n |-> 0]
Str(s) == [k |-> "str", s |-> s, n |-> 0]
Num(n) == [k |-> "num", s |-> <<>>, n |-> n]

\* pd.isna(v)
isna(v) == v.k \in {"none", "nan"}

\* str(v)
str(v) ==
    CASE v.k = "none" -> <<"N", "o", "n", "e">>
      [] v.k = "nan" -> <<"n", "a", "n">>
      [] v.k = "str" -> v.s
      [] v.k = "num" -> IntToStr(v.n)

---------------------------------------------------------------------------
(* DataFrames: [cols |-> sequence of distinct column names,                *)
(*              rows |-> sequence of functions from the columns to values] *)

REQUIRED_COLUMNS ==
    <<"REQ#", "ITEM", "NUMBER OF ITEM", "AMOUNT PER ITEM", "TOTAL",
      "VENDOR", "CAT #", "GRANT USED", "PO SOURCE", "PO #",
      "NOTES", "ORDERED BY", "DATE ORDERED", "DATE RECEIVED">>

Range(q) == {q[i] : i \in 1..Len(q)}

RECURSIVE SelectSeqNotIn(_, _)
SelectSeqNotIn(q, set) ==
    IF q = <<>> THEN <<>>
    ELSE IF q[1] \in set THEN SelectSeqNotIn(Tail(q), set)
    ELSE <<q[1]>> \o SelectSeqNotIn(Tail(q), set)

\* pd.DataFrame(columns=REQUIRED_COLUMNS)
EmptyFrame == [cols |-> REQUIRED_COLUMNS, rows |-> <<>>]

\* _ensure_columns returning df itself once the missing columns are added
Mutant_ensure_columns_keepsExtras(d) ==
    LET have == Range(d.cols)
        cols == d.cols \o SelectSeqNotIn(REQUIRED_COLUMNS, have)
    IN  [cols |-> cols,
         rows |-> [i \in 1..Len(d.rows) |->
                     [c \in Range(cols) |->
                        IF c \in have THEN d.rows[i][c] ELSE None]]]

\* utils._ensure_columns
_ensure_columns(d) ==
    LET have == Range(d.cols)
    IN  [cols |-> REQUIRED_COLUMNS,
         rows |-> [i \in 1..Len(d.rows) |->
                     [c \in Range(REQUIRED_COLUMNS) |->
                        IF c \in have THEN d.rows[i][c] ELSE None]]]

\* df["REQ#"].dropna().astype(str).tolist()
ExistingIds(d) ==
    LET keep == SelectSeq(d.rows, LAMBDA r : ~isna(r["REQ#"]))
    IN  [i \in 1..Len(keep) |-> str(keep[i]["REQ#"])]

\* "REQ-<year>-" with year = datetime.now().strftime("%Y")
Prefix(y) == <<"R", "E", "Q", "-">> \o IntToStr(y) \o <<"-">>

SetMax(set) == CHOOSE m \in set : \A x \in set : x <= m

\* gen_req_id without the "+ 1" of line 122
Mutant_gen_req_id_reusesMax(d, y) ==
    LET prefix == Prefix(y)
        existing == ExistingIds(d)
        picked == SelectSeq(existing,
                      LAMBDA x : startswith(x, prefix) /\ isdigit(LastField(x)))
    IN  IF \E i \in 1..Len(picked) : ~IntParses(LastField(picked[i]))
        THEN [raised |-> TRUE, value |-> <<>>]
        ELSE LET nums == {IntOf(LastField(picked[i])) : i \in 1..Len(picked)}
                 next_num == IF nums # {} THEN SetMax(nums) ELSE 1
             IN  [raised |-> FALSE,
                  value |-> prefix \o FormatPadded(next_num, PadWidth)]

\* utils.gen_req_id, in the year y: [raised, value]
gen_req_id(d, y) ==
    LET prefix == Prefix(y)
        existing == ExistingIds(d)
        picked == SelectSeq(existing,
                      LAMBDA x : startswith(x, prefix) /\ isdigit(LastField(x)))
    IN  IF \E i \in 1..Len(picked) : ~IntParses(LastField(picked[i]))
        THEN [raised |-> TRUE, value |-> <<>>]      \* ValueError from int()
        ELSE LET nums == {IntOf(LastField(picked[i])) : i \in 1..Len(picked)}
                 next_num == IF nums # {} THEN SetMax(nums) + 1 ELSE 1
             IN  [raised |-> FALSE,
                  value |-> prefix \o FormatPadded(next_num, PadWidth)]

---------------------------------------------------------------------------
(* The flat file: [exists, header, lines]; a line is a sequence of cell     *)
(* texts.  Quoting is lossless and is not modelled; what a cell text loses  *)
(* of the value it was written from is.                                     *)

NoFile == [exists |-> FALSE, header |-> <<>>, lines |-> <<>>]

\* DataFrame.to_csv's text of one value: na_rep is "", str writes itself
CellText(v) == IF isna(v) THEN <<>> ELSE str(v)

\* df.to_csv(DATA_PATH, index=False)
to_csv(d) ==
    [exists |-> TRUE,
     header |-> d.cols,
     lines |-> [i \in 1..Len(d.rows) |->
                  [j \in 1..Len(d.cols) |-> CellText(d.rows[i][d.cols[j]])]]]

\* Some of pandas' default na_values, the empty text among them
NaTexts == {<<>>, <<"n", "a", "n">>, <<"N", "A">>, <<"N", "o", "n", "e">>}

\* read_csv's type inference: a column whose non-NA cells are all numeric
\* literals is numeric
NumericColumn(c, j) ==
    LET texts == {c.lines[i][j] : i \in 1..Len(c.lines)} \ NaTexts
    IN  texts # {} /\ \A x \in texts : IntParses(x)

ParseCell(x, numeric) ==
    IF x \in NaTexts THEN NaN
    ELSE IF numeric THEN Num(IntOf(x))
    ELSE Str(x)

\* pd.read_csv(DATA_PATH)
read_csv(c) ==
    LET numeric == [j \in 1..Len(c.header) |-> NumericColumn(c, j)]
        at == [name \in Range(c.header) |->
                 CHOOSE x \in 1..Len(c.header) : c.header[x] = name]
    IN  [cols |-> c.header,
         rows |-> [i \in 1..Len(c.lines) |->
                     [name \in Range(c.header) |->
                        ParseCell(c.lines[i][at[name]], numeric[at[name]])]]]

\* utils.ensure_data_file
ensure_data_file(c) ==
    IF c.exists THEN c ELSE to_csv(EmptyFrame)

---------------------------------------------------------------------------
(* The remote collection: document id -> (field name -> value)             *)

Alphabet ==
    <<" ", "#", "-", "0", "1", "2", "3", "4", "5", "6", "7", "8", "9",
      "A", "B", "C", "D", "E", "F", "G", "H", "I", "J", "K", "L", "M",
      "N", "O", "P", "Q", "R", "S", "T", "U", "V", "W", "X", "Y", "Z",
      "a", "b", "c", "d", "e", "f", "g", "h", "i", "j", "k", "l", "m",
      "n", "o", "p", "q", "r", "s", "t", "u", "v", "w", "x", "y", "z">>

Rank(ch) == CHOOSE i \in 1..Len(Alphabet) : Alphabet[i] = ch

RECURSIVE StrLess(_, _)
StrLess(a, b) ==
    IF a = <<>> THEN b # <<>>
    ELSE IF b = <<>> THEN FALSE
    ELSE IF a[1] = b[1] THEN StrLess(Tail(a), Tail(b))
    ELSE Rank(a[1]) < Rank(b[1])

\* The ids of a collection in the order stream() yields them (by id)
RECURSIVE SortedIds(_)
SortedIds(ids) ==
    IF ids = {} THEN <<>>
    ELSE LET least == CHOOSE a \in ids : \A b \in ids \ {a} : StrLess(a, b)
         IN  <<least>> \o SortedIds(ids \ {least})

\* The names of a set in some fixed order
RECURSIVE NamesInOrder(_)
NamesInOrder(names) ==
    IF names = {} THEN <<>>
    ELSE LET one == CHOOSE a \in names : TRUE
         IN  <<one>> \o NamesInOrder(names \ {one})

\* pd.DataFrame(rows) for a list of dicts: the union of their keys, NaN
\* where a dict lacks a key
DataFrame(dicts) ==
    LET keys == UNION {DOMAIN dicts[i] : i \in 1..Len(dicts)}
        cols == SelectSeq(REQUIRED_COLUMNS, LAMBDA c : c \in keys)
                    \o NamesInOrder(keys \ Range(REQUIRED_COLUMNS))
    IN  [cols |-> cols,
         rows |-> [i \in 1..Len(dicts) |->
                     [c \in keys |->
                        IF c \in DOMAIN dicts[i] THEN dicts[i][c] ELSE NaN]]]

\* df.empty
IsEmptyFrame(d) == Len(d.rows) = 0 \/ Len(d.cols) = 0

\* load_orders, remote branch (lines 87-92)
load_remote(coll) ==
    LET ids == SortedIds(DOMAIN coll)
        rows == [i \in 1..Len(ids) |-> coll[ids[i]]]
        frame == DataFrame(rows)
    IN  IF IsEmptyFrame(frame) THEN EmptyFrame ELSE _ensure_columns(frame)

\* load_orders, local branch (lines 94-96)
load_local(c) == _ensure_columns(read_csv(ensure_data_file(c)))

\* utils.load_orders: the frame returned
load_orders(fs, c, coll) == IF fs THEN load_remote(coll) ELSE load_local(c)

\* utils.load_orders: the file it leaves
load_orders_file(fs, c) == IF fs THEN c ELSE ensure_data_file(c)

\* save_orders line 107: the row is skipped
SkipRow(row) ==
    LET id == str(row["REQ#"])
    IN  id = <<>> \/ id = <<"n", "a", "n">>

\* line 110 leaving the null fields out of the document
Mutant_RowDoc_omitsNulls(row) ==
    [c \in {x \in DOMAIN row : ~isna(row[x])} |-> row[c]]

\* save_orders line 110: {k: (None if pd.isna(v) else v) ...}
RowDoc(row) == [c \in DOMAIN row |-> IF isna(row[c]) THEN None ELSE row[c]]

\* set() that leaves a document that exists as it is
Mutant_SetMerge_keepsExisting(coll, id, doc) ==
    [x \in DOMAIN coll \cup {id} |-> IF x \in DOMAIN coll THEN coll[x] ELSE doc]

\* DocumentReference.set(doc, merge=True): the fields of doc replace those
\* of the document, its other fields stay
SetMerge(coll, id, doc) ==
    [x \in DOMAIN coll \cup {id} |->
        IF x # id THEN coll[x]
        ELSE IF id \in DOMAIN coll
             THEN [f \in DOMAIN coll[id] \cup DOMAIN doc |->
                     IF f \in DOMAIN doc THEN doc[f] ELSE coll[id][f]]
             ELSE doc]

\* save_orders lines 103-112: the batch of writes, committed in row order
RECURSIVE WriteRows(_, _)
WriteRows(coll, rows) ==
    IF rows = <<>> THEN coll
    ELSE IF SkipRow(rows[1]) THEN WriteRows(coll, Tail(rows))
    ELSE WriteRows(SetMerge(coll, str(rows[1]["REQ#"]), RowDoc(rows[1])),
                   Tail(rows))

save_remote(coll, d) == WriteRows(coll, _ensure_columns(d).rows)

\* save_orders lines 114-115
save_local(d) == to_csv(_ensure_columns(d))

\* utils.save_orders: the collection and the file it leaves
save_orders_docs(fs, d, coll) == IF fs THEN save_remote(coll, d) ELSE coll

save_orders_file(fs, d, c) == IF fs THEN c ELSE save_local(d)

---------------------------------------------------------------------------
(* Direct calls of gen_req_id on batches of REQ# values *)

ReqId(y, n) == Prefix(y) \o FormatPadded(n, PadWidth)

GenYears == {FirstYear - 1, FirstYear}

\* The REQ# values a batch handed to gen_req_id is drawn from.
GenPool ==
    {None, NaN,
     Str(<<"g", "a", "r", "b", "a", "g", "e">>),
     Str(Prefix(FirstYear)),
     Str(Prefix(FirstYear) \o <<"a", "b", "c">>),
     Str(Prefix(FirstYear) \o <<"a", "-", "0", "0", "0", "5">>),
     Str(Prefix(FirstYear) \o <<"sup2">>),
     Str(ReqId(FirstYear, 9999)),
     Num(6),
     Str(ReqId(FirstYear, 1)), Str(ReqId(FirstYear, 3)),
     Str(ReqId(FirstYear - 1, 7))}

IdFrame(ids) ==
    _ensure_columns([cols |-> <<"REQ#">>,
                     rows |-> [i \in 1..Len(ids) |->
                                 [c \in {"REQ#"} |-> ids[i]]]])

GenBatches(max) ==
    UNION {[1..n -> GenPool] : n \in 0..max}

NoCall == [raised |-> FALSE, value |-> <<>>]

InitBackendIdle ==
    /\ FB = "absent" /\ env = "used" /\ initpc = "ready" /\ db = "none"
    /\ USE_FIRESTORE = FALSE /\ raised = FALSE

InitStoreEmpty ==
    /\ csv = NoFile
    /\ docs = <<>>

InitFlowsIdle ==
    /\ pc = <<>> /\ df = <<>> /\ base = <<>> /\ req_id = <<>> /\ added = {}

InitGen ==
    /\ InitBackendIdle /\ InitStoreEmpty /\ InitFlowsIdle
    /\ year \in GenYears
    /\ phase = "call" /\ op = "gen_req_id"
    /\ \E ids \in GenBatches(MaxGenRows) : arg = IdFrame(ids)
    /\ ret = NoCall
    /\ before = <<>>

CallGen ==
    /\ phase = "call" /\ op = "gen_req_id"
    /\ ret' = gen_req_id(arg, year)
    /\ phase' = "ret"
    /\ UNCHANGED <<backendVars, flowVars, csv, docs, year, op, arg, before>>

NextGen == CallGen

SpecGen == InitGen /\ [][NextGen]_vars

---------------------------------------------------------------------------
(* validate_order *)

\* float(v): [ok, nan, n]; ok = FALSE stands for TypeError / ValueError
FloatFail == [ok |-> FALSE, nan |-> FALSE, n |-> 0]

float(v) ==
    CASE v.k = "none" -> FloatFail
      [] v.k = "nan" -> [ok |-> TRUE, nan |-> TRUE, n |-> 0]
      [] v.k = "num" -> [ok |-> TRUE, nan |-> FALSE, n |-> v.n]
      [] v.k = "str" ->
            IF v.s = <<"n", "a", "n">> THEN [ok |-> TRUE, nan |-> TRUE, n |-> 0]
            ELSE IF IntParses(v.s) THEN [ok |-> TRUE, nan |-> FALSE, n |-> IntOf(v.s)]
            ELSE IF Len(v.s) > 1 /\ v.s[1] = "-" /\ IntParses(Tail(v.s))
                 THEN [ok |-> TRUE, nan |-> FALSE, n |-> 0 - IntOf(Tail(v.s))]
            ELSE FloatFail

\* q < 0 on floats: every comparison with nan is False
FloatNegative(f) == ~f.nan /\ f.n < 0

\* not x or str(x).strip() == ""
Missing(x) ==
    \/ x.k = "none"
    \/ x.k = "str" /\ x.s = <<>>
    \/ IsBlank(str(x))

Result(ok, msg) == [ok |-> ok, msg |-> msg, raised |-> FALSE]

\* utils.validate_order
validate_order(item, qty, price, vendor) ==
    IF Missing(item) THEN Result(FALSE, "ITEM is required.")
    ELSE IF ~float(qty).ok THEN Result(FALSE, "NUMBER OF ITEM must be a number.")
    ELSE IF FloatNegative(float(qty)) THEN Result(FALSE, "NUMBER OF ITEM must be >= 0.")
    ELSE IF ~float(price).ok THEN Result(FALSE, "AMOUNT PER ITEM must be a number.")
    ELSE IF FloatNegative(float(price)) THEN Result(FALSE, "AMOUNT PER ITEM must be >= 0.")
    ELSE IF Missing(vendor) THEN Result(FALSE, "VENDOR is required.")
    ELSE Result(TRUE, "")

TextArgs == {None, Str(<<>>), Str(<<" ", " ">>), Str(<<"T", "u", "b", "e", "s">>)}

NumberArgs ==
    {None, NaN, Num(0 - 1), Num(0), Num(2),
     Str(<<"x">>), Str(<<"3">>), Str(<<"-", "1">>), Str(<<"n", "a", "n">>),
     Str(<<"sup2">>)}

InitValidate ==
    /\ InitBackendIdle /\ InitStoreEmpty /\ InitFlowsIdle
    /\ year = FirstYear
    /\ phase = "call" /\ op = "validate_order"
    /\ arg \in [item : TextArgs, qty : NumberArgs, price : NumberArgs,
                vendor : TextArgs]
    /\ ret = NoCall
    /\ before = <<>>

CallValidate ==
    /\ phase = "call" /\ op = "validate_order"
    /\ ret' = validate_order(arg.item, arg.qty, arg.price, arg.vendor)
    /\ phase' = "ret"
    /\ UNCHANGED <<backendVars, flowVars, csv, docs, year, op, arg, before>>

NextValidate == CallValidate

SpecValidate == InitValidate /\ [][NextValidate]_vars

---------------------------------------------------------------------------
(* Direct calls of _ensure_columns, save_orders and load_orders on batches *)

ReqArgs ==
    {None, NaN, Str(<<>>), Str(<<"n", "a", "n">>), Str(<<"X">>), Str(<<"Y">>)}

NoteArgs == {None, Str(<<"h", "i">>)}

LocalNoteArgs == {None, Str(<<>>), Str(<<"h", "i">>), Str(<<"0", "7">>)}

ExtraArgs == {Str(<<"b", "o", "b">>)}

ArgPool(c, notes) ==
    CASE c = "REQ#" -> ReqArgs
      [] c = "NOTES" -> notes
      [] OTHER -> ExtraArgs

\* The column lists of the batches handed to a call: canonical columns in
\* and out of canonical order, a column outside the schema, no column
BatchCols ==
    {<<>>, <<"REQ#">>, <<"NOTES">>, <<"REQ#", "NOTES">>,
     <<"RECEIVED BY", "NOTES", "REQ#">>}

\* Those of the batches saved to the collection
RemoteBatchCols == {<<>>, <<"REQ#">>, <<"NOTES">>, <<"REQ#", "NOTES">>}

RowsOver(cols, notes) ==
    {r \in [Range(cols) -> ReqArgs \cup notes \cup ExtraArgs] :
        \A c \in Range(cols) : r[c] \in ArgPool(c, notes)}

FramesOver(cols, notes) ==
    {[cols |-> cols, rows |-> rows] :
        rows \in UNION {[1..n -> RowsOver(cols, notes)] :
                          n \in 0..(IF cols = <<>> THEN 0 ELSE MaxRows)}}

Batches(colLists, notes) == UNION {FramesOver(cols, notes) : cols \in colLists}

InitCalls ==
    /\ InitFlowsIdle
    /\ year = FirstYear
    /\ phase = "idle" /\ op = "none" /\ arg = EmptyFrame /\ ret = NoCall
    /\ before = <<>>

\* _ensure_columns on a batch

InitNorm ==
    /\ InitBackendIdle /\ InitStoreEmpty /\ InitFlowsIdle
    /\ year = FirstYear
    /\ phase = "call" /\ op = "_ensure_columns"
    /\ arg \in Batches(BatchCols, LocalNoteArgs)
    /\ ret = NoCall
    /\ before = <<>>

CallNormalize ==
    /\ phase = "call" /\ op = "_ensure_columns"
    /\ ret' = [raised |-> FALSE, value |-> _ensure_columns(arg)]
    /\ phase' = "ret"
    /\ UNCHANGED <<backendVars, flowVars, csv, docs, year, op, arg, before>>

NextNorm == CallNormalize

SpecNorm == InitNorm /\ [][NextNorm]_vars

\* save_orders and load_orders, one call after the other

Backend == USE_FIRESTORE /\ db # "none"

PickSaveRemote ==
    /\ phase = "idle"
    /\ \E b \in Batches(RemoteBatchCols, NoteArgs) : arg' = b
    /\ phase' = "call" /\ op' = "save_orders"
    /\ UNCHANGED <<backendVars, flowVars, csv, docs, year, ret, before>>

CallSave ==
    /\ phase = "call" /\ op = "save_orders"
    /\ before' = docs
    /\ docs' = save_orders_docs(Backend, arg, docs)
    /\ csv' = save_orders_file(Backend, arg, csv)
    /\ ret' = NoCall
    /\ phase' = "ret"
    /\ UNCHANGED <<backendVars, flowVars, year, op, arg>>

\* load_orders(), called when nothing is running or right after a save
CallLoad ==
    /\ phase = "idle" \/ (phase = "ret" /\ op = "save_orders")
    /\ before' = docs
    /\ ret' = [raised |-> FALSE, value |-> load_orders(Backend, csv, docs),
               afterSave |-> phase = "ret"]
    /\ csv' = load_orders_file(Backend, csv)
    /\ phase' = "ret" /\ op' = "load_orders"
    /\ UNCHANGED <<backendVars, flowVars, docs, year, arg>>

Return ==
    /\ phase = "ret"
    /\ phase' = "idle" /\ op' = "none" /\ arg' = EmptyFrame /\ ret' = NoCall
    /\ before' = <<>>
    /\ UNCHANGED <<backendVars, flowVars, csv, docs, year>>

InitRemote ==
    /\ FB = "blob" /\ env = "used" /\ initpc = "ready" /\ db = "client"
    /\ USE_FIRESTORE = TRUE /\ raised = FALSE
    /\ InitStoreEmpty
    /\ InitCalls

NextRemote ==
    \/ PickSaveRemote
    \/ CallSave
    \/ CallLoad
    \/ Return

SpecRemote == InitRemote /\ [][NextRemote]_vars

\* The tables the file may hold before the save
PriorFiles ==
    {NoFile,
     to_csv(EmptyFrame),
     to_csv(_ensure_columns(
        [cols |-> <<"REQ#", "NOTES">>,
         rows |-> <<[c \in {"REQ#", "NOTES"} |->
                       IF c = "REQ#" THEN Str(<<"Z">>) ELSE Str(<<"o", "l", "d">>)]>>]))}

\* One save per run, over any of the prior tables
PickSaveLocal ==
    /\ phase = "idle"
    /\ csv \in PriorFiles
    /\ \E b \in Batches(BatchCols, LocalNoteArgs) : arg' = b
    /\ phase' = "call" /\ op' = "save_orders"
    /\ UNCHANGED <<backendVars, flowVars, csv, docs, year, ret, before>>

InitLocal ==
    /\ InitBackendIdle
    /\ csv \in PriorFiles
    /\ docs = <<>>
    /\ InitCalls

NextLocal ==
    \/ PickSaveLocal
    \/ CallSave
    \/ CallLoad
    \/ Return

SpecLocal == InitLocal /\ [][NextLocal]_vars

---------------------------------------------------------------------------
(* Backend selection: the import of utils (lines 17-72)                    *)

\* The shapes of the [firebase] secrets block
FBShapes == {"absent", "incomplete", "blob", "fields", "both"}

\* What the calls inside the try block do in this process
EnvOutcomes ==
    {"ok", "import_error", "bad_json", "bad_cert", "init_error", "client_error"}

\* The try body of _init_firestore_from_secrets raises (lines 31-63)
TryBodyRaises(fb, e) ==
    \/ e = "import_error"
    \/ fb \in {"blob", "both"} /\ e \in {"bad_json", "bad_cert"}
    \/ fb = "fields" /\ e = "bad_cert"
    \/ fb # "incomplete" /\ e \in {"init_error", "client_error"}

\* The function without its try/except
Mutant_init_firestore_uncaught(fb, e) ==
    IF fb = "absent" THEN [raised |-> FALSE, db |-> "none"]
    ELSE IF TryBodyRaises(fb, e) THEN [raised |-> TRUE, db |-> "none"]
    ELSE IF fb = "incomplete" THEN [raised |-> FALSE, db |-> "none"]
    ELSE [raised |-> FALSE, db |-> "client"]

\* utils._init_firestore_from_secrets: [raised, db]
_init_firestore_from_secrets(fb, e) ==
    IF fb = "absent" THEN [raised |-> FALSE, db |-> "none"]
    ELSE IF TryBodyRaises(fb, e) THEN [raised |-> FALSE, db |-> "none"]
    ELSE IF fb = "incomplete" THEN [raised |-> FALSE, db |-> "none"]
    ELSE [raised |-> FALSE, db |-> "client"]

\* app.py line 36: utils is imported, once per process (lines 70-71)
ImportUtils ==
    /\ initpc = "import"
    /\ LET r == _init_firestore_from_secrets(FB, env)
       IN  /\ db' = r.db
           /\ raised' = r.raised
           /\ USE_FIRESTORE' = (r.db # "none")
    /\ initpc' = "ready"
    /\ env' = "used"
    /\ UNCHANGED <<FB, csv, docs, year, flowVars, callVars>>

---------------------------------------------------------------------------
(* The Add Order flow of app.py, one script run per session at a time.     *)
(* A script run is cut where it reads or writes the store: load_orders and *)
(* save_orders are single steps, and the runs of the sessions interleave   *)
(* between them.                                                           *)

Sessions == {"s1", "s2"}

\* What the user typed in ITEM; the other inputs are the same in every run,
\* but for ORDERED BY, which names the session
FormItems == {Str(<<>>), Str(<<"F", "B", "S">>)}

FormQty == Num(2)
FormPrice == Num(3)
FormVendor == Str(<<"A", "c", "m", "e">>)

\* utils.compute_total on numbers (the product of two integers needs no
\* rounding)
compute_total(qty, price) ==
    IF float(qty).ok /\ float(price).ok /\ ~float(qty).nan /\ ~float(price).nan
    THEN Num(float(qty).n * float(price).n)
    ELSE Num(0)

\* date.today().isoformat(), the day left at the first of January
IsoDate(y) == IntToStr(y) \o <<"-", "0", "1", "-", "0", "1">>

NewRowColumns ==
    REQUIRED_COLUMNS \o <<"RECEIVED BY", "ITEM LOCATION">>

\* app.py lines 99-116
new_row(id, item, who, y) ==
    [c \in Range(NewRowColumns) |->
        CASE c = "REQ#" -> Str(id)
          [] c = "ITEM" -> item
          [] c = "NUMBER OF ITEM" -> FormQty
          [] c = "AMOUNT PER ITEM" -> FormPrice
          [] c = "TOTAL" -> compute_total(FormQty, FormPrice)
          [] c = "VENDOR" -> FormVendor
          [] c = "PO SOURCE" -> Str(<<"S", "h", "o", "p", "B", "l", "u", "e">>)
          [] c = "ORDERED BY" -> Str(<<who[1], who[2]>>)
          [] c = "DATE ORDERED" -> Str(IsoDate(y))
          [] OTHER -> Str(<<>>)]

\* line 117 assigning the new row alone to df
Mutant_concat_newRowOnly(d, row) ==
    LET cols == SelectSeq(NewRowColumns, LAMBDA c : c \in DOMAIN row)
    IN  [cols |-> cols, rows |-> <<row>>]

\* pd.concat([d, pd.DataFrame([row])], ignore_index=True)
concat(d, row) ==
    LET rowcols == SelectSeq(NewRowColumns, LAMBDA c : c \in DOMAIN row)
        cols == d.cols \o SelectSeqNotIn(rowcols, Range(d.cols))
        fill(r) == [c \in Range(cols) |-> IF c \in DOMAIN r THEN r[c] ELSE NaN]
    IN  [cols |-> cols,
         rows |-> [i \in 1..(Len(d.rows) + 1) |->
                     IF i <= Len(d.rows) THEN fill(d.rows[i]) ELSE fill(row)]]

SessionName(s) == IF s = "s1" THEN <<"s", "1">> ELSE <<"s", "2">>

\* line 69: df = load_orders()
Load(s) ==
    /\ initpc = "ready"
    /\ pc[s] = "idle"
    /\ LET loaded == load_orders(Backend, csv, docs)
       IN  /\ df' = [df EXCEPT ![s] = loaded]
           /\ base' = [base EXCEPT ![s] = loaded]
    /\ csv' = load_orders_file(Backend, csv)
    /\ pc' = [pc EXCEPT ![s] = "loaded"]
    /\ UNCHANGED <<backendVars, docs, year, req_id, added, callVars>>

\* The session's variables once its script run has ended
EndRun(s) ==
    /\ pc' = [pc EXCEPT ![s] = "idle"]
    /\ df' = [df EXCEPT ![s] = EmptyFrame]
    /\ base' = [base EXCEPT ![s] = EmptyFrame]
    /\ req_id' = [req_id EXCEPT ![s] = <<>>]

\* lines 91-117: Add Order is pressed; validate_order, then st.error and
\* the end of the run, or gen_req_id and concat
Submit(s) ==
    /\ pc[s] = "loaded"
    /\ Len(df[s].rows) < MaxOrders
    /\ \E item \in FormItems :
        LET v == validate_order(item, FormQty, FormPrice, FormVendor)
            g == gen_req_id(df[s], year)
        IN  IF ~v.ok \/ g.raised
            THEN EndRun(s)
            ELSE /\ req_id' = [req_id EXCEPT ![s] = g.value]
                 /\ df' = [df EXCEPT ![s] =
                              concat(df[s], new_row(g.value, item, SessionName(s), year))]
                 /\ pc' = [pc EXCEPT ![s] = "save"]
                 /\ UNCHANGED base
    /\ UNCHANGED <<backendVars, csv, docs, year, added, callVars>>

\* lines 118-119: save_orders(df); st.success(...)
Save(s) ==
    /\ pc[s] = "save"
    /\ docs' = save_orders_docs(Backend, df[s], docs)
    /\ csv' = save_orders_file(Backend, df[s], csv)
    /\ added' = added \cup {req_id[s]}
    /\ pc' = [pc EXCEPT ![s] = "saved"]
    /\ UNCHANGED <<backendVars, year, df, base, req_id, callVars>>

\* lines 124-195: the other tabs call load_orders() and the run ends, with
\* or without an order added
View(s) ==
    /\ pc[s] \in {"loaded", "saved"}
    /\ csv' = load_orders_file(Backend, csv)
    /\ EndRun(s)
    /\ UNCHANGED <<backendVars, docs, year, added, callVars>>

\* New Year: datetime.now() reports the next year
Tick ==
    /\ initpc = "ready"
    /\ year < FirstYear + YearSpan
    /\ year' = year + 1
    /\ UNCHANGED <<backendVars, csv, docs, flowVars, callVars>>

InitFlows ==
    /\ pc = [s \in Sessions |-> "idle"]
    /\ df = [s \in Sessions |-> EmptyFrame]
    /\ base = [s \in Sessions |-> EmptyFrame]
    /\ req_id = [s \in Sessions |-> <<>>]
    /\ added = {}

InitNoCalls ==
    /\ phase = "idle" /\ op = "none" /\ arg = EmptyFrame /\ ret = NoCall
    /\ before = <<>>

\* The sessions of a process whose import of utils has ended, on the local
\* or on the remote backend
Init ==
    /\ \/ InitBackendIdle
       \/ /\ FB = "blob" /\ env = "used" /\ initpc = "ready" /\ db = "client"
          /\ USE_FIRESTORE = TRUE /\ raised = FALSE
    /\ InitStoreEmpty
    /\ year = FirstYear
    /\ InitFlows
    /\ InitNoCalls

Next ==
    \/ Tick
    \/ \E s \in Sessions :
        \/ Load(s)
        \/ Submit(s)
        \/ Save(s)
        \/ View(s)

Spec == Init /\ [][Next]_vars

\* A process from its start, its script runs one at a time: a run starts
\* when no other is running
InitProcess ==
    /\ FB \in FBShapes /\ env \in EnvOutcomes
    /\ initpc = "import" /\ db = "none" /\ USE_FIRESTORE = FALSE
    /\ raised = FALSE
    /\ InitStoreEmpty
    /\ year = FirstYear
    /\ InitFlows
    /\ InitNoCalls

LoadAlone(s) ==
    /\ \A t \in Sessions \ {s} : pc[t] = "idle"
    /\ Load(s)

NextSeq ==
    \/ ImportUtils
    \/ Tick
    \/ \E s \in Sessions :
        \/ LoadAlone(s)
        \/ Submit(s)
        \/ Save(s)
        \/ View(s)

SpecSeq == InitProcess /\ [][NextSeq]_vars

---------------------------------------------------------------------------
(* C1 *)

\* The claim's own reading of a REQ# value that counts: non-null, starts
\* with "REQ-<Y>-", and the text after its last "-" is a decimal literal.
C1_Counts(v, y) ==
    /\ ~isna(v)
    /\ startswith(str(v), Prefix(y))
    /\ IntParses(LastField(str(v)))

C1_Expected(d, y) ==
    LET nums == {IntOf(LastField(str(d.rows[i]["REQ#"]))) :
                    i \in {j \in 1..Len(d.rows) : C1_Counts(d.rows[j]["REQ#"], y)}}
    IN  Prefix(y) \o FormatPadded(IF nums = {} THEN 1 ELSE SetMax(nums) + 1, PadWidth)

\* C1: for every batch and year Y, gen_req_id returns "REQ-Y-" followed by
\* max+1 padded to at least 4 digits, max being the largest number among the
\* REQ# values of year Y with an all-digit suffix, and "REQ-Y-0001" when no
\* value counts; it returns for every batch.
C1_GenReqIdContract ==
    (phase = "ret" /\ op = "gen_req_id") =>
        (~ret.raised /\ ret.value = C1_Expected(arg, year))

\* The same contract on the batches that hold no digit-like character
\* outside 0-9.
C1_AsciiBatch ==
    \A i \in 1..Len(arg.rows) :
        \A j \in 1..Len(str(arg.rows[i]["REQ#"])) :
            str(arg.rows[i]["REQ#"])[j] \notin SuperDigitSet

C1_ContractOnAsciiBatches ==
    (phase = "ret" /\ op = "gen_req_id" /\ C1_AsciiBatch) =>
        (~ret.raised /\ ret.value = C1_Expected(arg, year))

---------------------------------------------------------------------------
(* C8 *)

\* The rules as the specification words them.
C8_TextPresent(x) == x.k # "none" /\ ~IsBlank(str(x))

C8_IsNumber(x) == float(x).ok /\ ~float(x).nan

C8_NumberRule(x) == C8_IsNumber(x) /\ float(x).n >= 0

C8_NumberMessages(x, field) ==
    IF C8_IsNumber(x) THEN {field \o " must be >= 0."}
    ELSE {field \o " must be a number.", field \o " must be >= 0."}

\* The results the claim allows for a call.
C8_Allowed(a) ==
    IF ~C8_TextPresent(a.item) THEN {Result(FALSE, "ITEM is required.")}
    ELSE IF ~C8_NumberRule(a.qty)
         THEN {Result(FALSE, m) : m \in C8_NumberMessages(a.qty, "NUMBER OF ITEM")}
    ELSE IF ~C8_NumberRule(a.price)
         THEN {Result(FALSE, m) : m \in C8_NumberMessages(a.price, "AMOUNT PER ITEM")}
    ELSE IF ~C8_TextPresent(a.vendor) THEN {Result(FALSE, "VENDOR is required.")}
    ELSE {Result(TRUE, "")}

\* C8: validate_order checks item, quantity, price, vendor in this order,
\* returns (False, message) for the first rule that fails and (True, "")
\* exactly when all four rules pass, and never raises.
C8_ValidateContract ==
    (phase = "ret" /\ op = "validate_order") => ret \in C8_Allowed(arg)

\* The same contract on the calls whose quantity and price are not NaN.
C8_ContractWithoutNaN ==
    (phase = "ret" /\ op = "validate_order"
        /\ ~float(arg.qty).nan /\ ~float(arg.price).nan) =>
            ret \in C8_Allowed(arg)

---------------------------------------------------------------------------
(* C6 *)

Canonical == Range(REQUIRED_COLUMNS)

\* C6: for every raw batch, one with zero rows included, the output of
\* _ensure_columns has exactly the canonical columns in canonical order;
\* a canonical column absent from the input is null in every row, a column
\* outside the schema is absent from the output, and the values of the
\* canonical columns of the input are unchanged.
C6_NormalizerShape ==
    (phase = "ret" /\ op = "_ensure_columns") =>
        LET out == ret.value
        IN  /\ out.cols = REQUIRED_COLUMNS
            /\ Len(out.rows) = Len(arg.rows)
            /\ \A i \in 1..Len(out.rows) :
                /\ DOMAIN out.rows[i] = Canonical
                /\ \A c \in Canonical :
                    IF c \in Range(arg.cols)
                    THEN out.rows[i][c] = arg.rows[i][c]
                    ELSE isna(out.rows[i][c])

\* A batch with rows, a column outside the schema, canonical columns out
\* of order and canonical columns missing has been normalised.
C6_Witness ==
    /\ phase = "ret" /\ op = "_ensure_columns"
    /\ arg.cols = <<"RECEIVED BY", "NOTES", "REQ#">>
    /\ Len(arg.rows) = MaxRows

---------------------------------------------------------------------------
(* C3 *)

\* The keys the claim says are never written: null, empty, or the text of
\* the missing-number sentinel.
C3_MalformedKey(v) == isna(v) \/ str(v) = <<>> \/ str(v) = <<"n", "a", "n">>

RECURSIVE C3_WriteWellKeyed(_, _)
C3_WriteWellKeyed(coll, rows) ==
    IF rows = <<>> THEN coll
    ELSE IF C3_MalformedKey(rows[1]["REQ#"])
         THEN C3_WriteWellKeyed(coll, Tail(rows))
    ELSE C3_WriteWellKeyed(
            SetMerge(coll, str(rows[1]["REQ#"]), RowDoc(rows[1])), Tail(rows))

\* C3: on the remote backend save_orders issues no write for a row whose
\* REQ# is null, empty or the missing-number text, and writes every other
\* row of the batch under its own REQ#.
C3_SkipsMalformedKeys ==
    (phase = "ret" /\ op = "save_orders" /\ Backend) =>
        docs = C3_WriteWellKeyed(before, _ensure_columns(arg).rows)

\* The same statement for the batches that hold no None in REQ# (NaN, the
\* empty string and "nan" are skipped).
C3_SkipsNaNAndEmptyKeys ==
    (phase = "ret" /\ op = "save_orders" /\ Backend
        /\ \A i \in 1..Len(arg.rows) :
              _ensure_columns(arg).rows[i]["REQ#"] # None) =>
        docs = C3_WriteWellKeyed(before, _ensure_columns(arg).rows)

---------------------------------------------------------------------------
(* C4 *)

Absent == [k |-> "absent", s |-> <<>>, n |-> 0]

Field(doc, c) == IF c \in DOMAIN doc THEN doc[c] ELSE Absent

\* null is stored as an explicit None
C4_Stored(v) == IF isna(v) THEN None ELSE v

C4_RowStored(row) ==
    /\ str(row["REQ#"]) \in DOMAIN docs
    /\ \A c \in Canonical :
          Field(docs[str(row["REQ#"])], c) = C4_Stored(row[c])

\* C4: after a remote save_orders, the document under key X holds, field
\* by canonical field, the normalised values of the record written under
\* X (the last one, should the batch repeat X), a missing or null field as
\* an explicit null; no canonical value of an earlier save of X survives.
C4_WrittenRowStored ==
    (phase = "ret" /\ op = "save_orders" /\ Backend) =>
        LET rows == _ensure_columns(arg).rows
        IN  \A i \in 1..Len(rows) :
                (/\ ~SkipRow(rows[i])
                 /\ \A j \in (i + 1)..Len(rows) :
                        SkipRow(rows[j]) \/ str(rows[j]["REQ#"]) # str(rows[i]["REQ#"]))
                => C4_RowStored(rows[i])

\* Document X held NOTES = "hi" from an earlier save; a batch without a
\* NOTES column has been saved under X, and NOTES is now null.
C4_Witness ==
    /\ phase = "ret" /\ op = "save_orders" /\ Backend
    /\ <<"X">> \in DOMAIN before
    /\ Field(before[<<"X">>], "NOTES") = Str(<<"h", "i">>)
    /\ "NOTES" \notin Range(arg.cols)
    /\ \E i \in 1..Len(arg.rows) : _ensure_columns(arg).rows[i]["REQ#"] = Str(<<"X">>)
    /\ Field(docs[<<"X">>], "NOTES") = None

---------------------------------------------------------------------------
(* C5 *)

\* Identical values, None and NaN both being the null marker
C5_SameValue(a, b) == (isna(a) /\ isna(b)) \/ a = b

\* C5: on the local backend save_orders(B) followed by load_orders()
\* returns as many records as B has, in B's order, each canonical value
\* identical to that of the normalised B, null and empty string included.
C5_LocalRoundTrip ==
    (phase = "ret" /\ op = "load_orders" /\ ~Backend /\ ret.afterSave) =>
        LET want == _ensure_columns(arg)
            got == ret.value
        IN  /\ got.cols = REQUIRED_COLUMNS
            /\ Len(got.rows) = Len(want.rows)
            /\ \A i \in 1..Len(got.rows) : \A c \in Canonical :
                  C5_SameValue(got.rows[i][c], want.rows[i][c])

\* What the round trip does keep: the number of rows, their order, which
\* cells are non-null texts other than the NA texts, and the text of each.
C5_RoundTripKeepsTexts ==
    (phase = "ret" /\ op = "load_orders" /\ ~Backend /\ ret.afterSave) =>
        LET want == _ensure_columns(arg)
            got == ret.value
        IN  /\ got.cols = REQUIRED_COLUMNS
            /\ Len(got.rows) = Len(want.rows)
            /\ \A i \in 1..Len(got.rows) : \A c \in Canonical :
                  IF CellText(want.rows[i][c]) \in NaTexts
                  THEN isna(got.rows[i][c])
                  ELSE IntParses(CellText(want.rows[i][c]))
                       \/ got.rows[i][c] = want.rows[i][c]

---------------------------------------------------------------------------
(* The records the store holds, as load_orders() returns them *)

StoreRows == load_orders(Backend, csv, docs).rows

IdsOf(rows) == {str(rows[i]["REQ#"]) : i \in 1..Len(rows)}

StoreIds == IdsOf(StoreRows)

---------------------------------------------------------------------------
(* C2 *)

\* C2: from an empty store, after any sequence of order-creation flows of
\* any sessions on either backend, no two records of the store have the
\* same REQ#.
C2_ReqIdsUnique ==
    LET rows == StoreRows
    IN  \A i, j \in 1..Len(rows) : i # j => rows[i]["REQ#"] # rows[j]["REQ#"]

\* Two sessions have saved under the same REQ# and the store holds two
\* records.
C2_Witness ==
    /\ Len(StoreRows) >= 2
    /\ \E s, t \in Sessions :
        /\ s # t
        /\ pc[s] = "saved" /\ pc[t] = "saved"
        /\ req_id[s] = req_id[t]

---------------------------------------------------------------------------
(* C9 *)

\* The store holds the record session s built under its req_id
C9_Persisted(rows, s) ==
    \E i \in 1..Len(rows) :
        /\ rows[i]["REQ#"] = Str(req_id[s])
        /\ rows[i]["ORDERED BY"] = Str(SessionName(s))

\* C9: gen_req_id followed by save_orders is not atomic and nothing checks
\* the id again: every save_orders of a flow completes with the flow's
\* record in the store under the flow's REQ#, whatever was saved under
\* that REQ# since the flow loaded.
C9_SaveKeepsOwnRecord ==
    [][\A s \in Sessions :
          (pc[s] = "save" /\ pc'[s] = "saved") =>
              C9_Persisted(load_orders(Backend, csv', docs').rows, s)]_vars

\* The interleaving: two flows loaded the same contents, obtained the same
\* REQ#, and both completed save_orders.
C9_Witness ==
    \E s, t \in Sessions :
        /\ s # t
        /\ pc[s] = "saved" /\ pc[t] = "saved"
        /\ base[s] = base[t]
        /\ req_id[s] = req_id[t]

---------------------------------------------------------------------------
(* C10 *)

\* C10: with the flows one at a time, on either backend the REQ# values of
\* the store only grow; a flow that saves adds exactly one REQ# that was
\* not there and removes none; every order reported as added is returned
\* by load_orders from then on.
C10_SequentialStoreGrows ==
    /\ [](added \subseteq StoreIds)
    /\ [][LET ids == StoreIds
               ids2 == IdsOf(load_orders(Backend, csv', docs').rows)
           IN  /\ ids \subseteq ids2
               /\ \A s \in Sessions :
                     (pc[s] = "save" /\ pc'[s] = "saved") =>
                         (req_id[s] \notin ids /\ ids2 = ids \cup {req_id[s]})]_vars

\* As many orders as the run allows have been added, one flow after the
\* other, the last one a moment ago.
C10_Witness ==
    /\ Cardinality(added) = MaxOrders
    /\ \E s \in Sessions : pc[s] = "saved"

---------------------------------------------------------------------------
(* C7 *)

\* The remote client was constructed: credentials of one of the two forms
\* and no failing step among those that run for them
C7_Constructed(fb, e) ==
    /\ fb \in {"blob", "fields", "both"}
    /\ e \notin {"import_error", "bad_cert", "init_error", "client_error"}
    /\ fb = "fields" \/ e # "bad_json"

\* C7: backend selection never raises and always yields a backend: the
\* local one for no credentials, incomplete credentials, a malformed blob
\* and a failure while constructing the client, the remote one only when
\* the client was constructed; the backend then stays the same for the
\* rest of the process.
C7_BackendSelection ==
    /\ [](~raised /\ (USE_FIRESTORE <=> db = "client"))
    /\ [][(initpc = "import" /\ initpc' = "ready") =>
              (USE_FIRESTORE' <=> C7_Constructed(FB, env))]_vars
    /\ [][initpc = "ready" =>
              (USE_FIRESTORE' = USE_FIRESTORE /\ db' = db /\ initpc' = "ready")]_vars

\* A process whose credential blob was there and whose client could not be
\* constructed has added an order on the local backend.
C7_Witness ==
    /\ FB = "blob" /\ initpc = "ready"
    /\ ~USE_FIRESTORE
    /\ csv.exists /\ Len(csv.lines) > 0

=============================================================================
